---- MODULE Spec2Model ----
(***************************************************************************)
(* Session broker of the doctor-booking backend: the auth controller       *)
(* (register, login, logout, getProfile), the verifyToken gate and the     *)
(* identity provider (Supabase Auth) they forward to.                      *)
(*                                                                         *)
(* Every handler is an async function with at most one await, the call to  *)
(* the provider.  A handler is therefore two steps: the step named after   *)
(* it (register, login, ...) runs the code up to the await or to an early  *)
(* return, the step named after the awaited call (register_signUp, ...)    *)
(* runs the code after it with one of the answers the provider can give.   *)
(*                                                                         *)
(* The repository holds several versions of the controller.  The one that  *)
(* reaches the provider is modelled as register, login, logout and         *)
(* getProfile; of the earlier ones, the register that validates its input  *)
(* and the logout that only clears the cookies are modelled as             *)
(* registerDraft and logoutDraft.  Handlers that only answer 501 "not yet  *)
(* implemented" and are replaced by a later version are left out.          *)
(***************************************************************************)
EXTENDS Integers, Sequences, FiniteSets, TLC

\* Number of sessions the provider issues in one behaviour.
MaxSessions == 2
\* Longest password a request carries.
MaxPasswordLen == 6
\* Number of actions dispatched to the client's store in one behaviour.
MaxDispatch == 3

VARIABLES
    nodeEnv,    \* process.env.NODE_ENV, read once when the controller loads
    req,        \* the request being handled
    pc,         \* position of its handler: idle, the provider call awaited, done
    res,        \* responses sent for it, in order: <<[status, body]>>
    cookies,    \* res.cookie / res.clearCookie calls made for it, in order
    calls,      \* provider calls issued for it, in order
    answers,    \* provider answers received for it, in order
    nextRan,    \* the gate called next() for it
    issued,     \* provider: number of sessions issued so far
    sessions,   \* provider: the sessions that are still live
    handle,     \* session held by the shared client handle (0: none)
    seen,       \* history: what login answered to each provider error so far
    jar,        \* the browser's cookie jar: the cookies it holds, by name
    afterLogout, \* history: the browser logged out and has got no session since
    appointment, \* client: the state of the appointment slice of the store
    dispatched   \* history: the actions dispatched to the slice, in order

vars == <<nodeEnv, req, pc, res, cookies, calls, answers, nextRan, issued,
          sessions, handle, seen, jar, afterLogout, appointment, dispatched>>

(***************************************************************************)
(* JavaScript values of the request body and the cookies: undefined or a   *)
(* string.  A string is the sequence of its symbols; e-mails and passwords *)
(* are spelled character by character, names, roles, ids and tokens are    *)
(* one symbol.                                                             *)
(***************************************************************************)
Undefined == [def |-> FALSE, s |-> <<>>]

S(seq) == [def |-> TRUE, s |-> seq]

\* !v
Falsy(v) == ~v.def \/ v.s = <<>>

\* v || d
OrElse(v, d) == IF Falsy(v) THEN d ELSE v

\* /^[^\s@]+@[^\s@]+\.[^\s@]+$/.test(email)
NotSpaceAt(c) == c \notin {" ", "@"}

AllNotSpaceAt(s, from, to) == \A k \in from..to : NotSpaceAt(s[k])

emailRegex(s) ==
    \E i \in 2..Len(s), j \in 4..Len(s) :
        /\ i + 1 < j
        /\ j < Len(s)
        /\ s[i] = "@"
        /\ s[j] = "."
        /\ AllNotSpaceAt(s, 1, i - 1)
        /\ AllNotSpaceAt(s, i + 1, j - 1)
        /\ AllNotSpaceAt(s, j + 1, Len(s))

MinPasswordLength == 6

Emails ==
    { Undefined, S(<<>>),
      S(<<"a", "@", "b", ".", "c">>),
      S(<<"a", "b">>),
      S(<<"a", "@", "b">>),
      S(<<"a", " ", "@", "b", ".", "c">>),
      S(<<"a", "@", "@", "b", ".", "c">>),
      S(<<"@", "b", ".", "c">>),
      S(<<"a", "@", "b", ".">>) }

Passwords ==
    { Undefined, S(<<>>) }
    \cup { S([k \in 1..n |-> "p"]) : n \in (MinPasswordLength - 1)..MaxPasswordLen }

Names == { Undefined, S(<<>>), S(<<"Ann">>) }

Roles == { Undefined, S(<<"patient">>), S(<<"doctor">>), S(<<"admin">>) }

AccessToken(n) == S(<<"at", ToString(n)>>)

RefreshToken(n) == S(<<"rt", ToString(n)>>)

\* what a client can send as the sb-access-token cookie
CookieValues == { Undefined, S(<<"forged">>) } \cup { AccessToken(n) : n \in 1..MaxSessions }

\* the session a cookie value names (0: none)
SessionOf(v) == IF \E n \in 1..MaxSessions : v = AccessToken(n)
                THEN CHOOSE n \in 1..MaxSessions : v = AccessToken(n)
                ELSE 0

NoRequest == [handler |-> "none", email |-> Undefined, password |-> Undefined,
              name |-> Undefined, role |-> Undefined, cookie |-> Undefined]

Request(h, e, p, n, r, c) == [handler |-> h, email |-> e, password |-> p,
                              name |-> n, role |-> r, cookie |-> c]

Call(op, e, p, n, r, t) == [op |-> op, email |-> e, password |-> p,
                            name |-> n, role |-> r, token |-> t]

Response(st, b) == [status |-> st, body |-> b]

\* what a handler step leaves behind: the new position, the responses and
\* cookie calls it made and the provider calls it issued
Outcome(p, r, ck, cl) == [pc |-> p, res |-> r, cookies |-> ck, calls |-> cl]

\* cookie options that ignore the runtime mode
COOKIE_OPTIONS_development ==
    [httpOnly |-> TRUE,
     secure   |-> FALSE,
     sameSite |-> "lax",
     maxAge   |-> 7 * 24 * 60 * 60 * 1000,
     path     |-> "/"]

COOKIE_OPTIONS ==
    [httpOnly |-> TRUE,
     secure   |-> (nodeEnv = "production"),
     sameSite |-> IF nodeEnv = "production" THEN "strict" ELSE "lax",
     maxAge   |-> 7 * 24 * 60 * 60 * 1000,
     path     |-> "/"]

\* res.cookie(name, value, COOKIE_OPTIONS)
SetCookie(name, value) == [name |-> name, value |-> value, options |-> COOKIE_OPTIONS]

\* res.clearCookie(name): express sends the cookie empty and expired
ClearCookie(name) == [name |-> name, value |-> S(<<>>),
                      options |-> [expires |-> 1, path |-> "/"]]

(***************************************************************************)
(* The identity provider.  Its answers are inputs of the broker: a call    *)
(* throws (network failure), returns an error, or returns data.            *)
(***************************************************************************)
SignUpErrors == { "User already registered" }

SignInErrors == { "User not found", "Wrong password" }

TokenErrors == { "invalid JWT" }

UserIds == { S(<<"u1">>), S(<<"u2">>) }

NoUser == [id |-> Undefined, email |-> Undefined, name |-> Undefined, role |-> Undefined]

Answer(k, m, sn, u) == [kind |-> k, message |-> m, session |-> sn, user |-> u]

\* what the client library throws when the provider cannot be reached
ThrownErrors == { "fetch failed", "connect ECONNREFUSED" }

Throws == { Answer("throw", m, 0, NoUser) : m \in ThrownErrors }

Errors(messages) == { Answer("error", m, 0, NoUser) : m \in messages }

\* the session the provider issues next (0: none left within the bound)
NextSession == IF issued < MaxSessions THEN issued + 1 ELSE 0

Users(email) ==
    { [id |-> i, email |-> email, name |-> n, role |-> r] :
        i \in UserIds, n \in { Undefined, S(<<"Ann">>) },
        r \in { S(<<"patient">>), S(<<"doctor">>) } }

\* supabase.auth.signUp({email, password, options: {data: {name, role}}}):
\* the account carries the metadata it was signed up with
SignUpAnswers(c) ==
    Throws \cup Errors(SignUpErrors)
    \cup { Answer("ok", "", sn, [id |-> i, email |-> c.email, name |-> c.name, role |-> c.role]) :
             sn \in { 0, NextSession }, i \in UserIds }

\* supabase.auth.signInWithPassword({email, password})
SignInAnswers(c) ==
    Throws \cup Errors(SignInErrors)
    \cup { Answer("ok", "", sn, u) : sn \in { 0, NextSession }, u \in Users(c.email) }

\* supabase.auth.signOut(): no data, an error or nothing
SignOutAnswers == Throws \cup { Answer("ok", "", 0, NoUser) } \cup Errors(TokenErrors)

\* supabase.auth.getUser(token): a user only for the token of a live session
GetUserAnswers(c) ==
    Throws \cup { Answer("ok", "", 0, NoUser) } \cup Errors(TokenErrors)
    \cup IF SessionOf(c.token) \in sessions
         THEN { Answer("ok", "", 0, u) : u \in Users(S(<<"a", "@", "b", ".", "c">>)) }
         ELSE {}

(***************************************************************************)
(* The controller that brokers sessions (register, login, logout,          *)
(* getProfile), each as the code before and the code after its await.      *)
(***************************************************************************)
UserBody(u) == [id |-> u.id, email |-> u.email, name |-> u.name, role |-> u.role]

SessionCookies(sn) == << SetCookie("sb-access-token", AccessToken(sn)),
                         SetCookie("sb-refresh-token", RefreshToken(sn)) >>

register_validate(r) ==
    IF Falsy(r.email) \/ Falsy(r.password)
    THEN Outcome("done", << Response(400, [error |-> "Email and password are required"]) >>,
                 <<>>, <<>>)
    ELSE Outcome("signUp", <<>>, <<>>,
                 << Call("signUp", r.email, r.password, r.name,
                         OrElse(r.role, S(<<"patient">>)), Undefined) >>)

\* register that answers with the id and email only, without the metadata
register_relay_nometadata(ans) ==
    CASE ans.kind = "throw" ->
            Outcome("done", << Response(500, [error |-> "Registration failed"]) >>, <<>>, <<>>)
      [] ans.kind = "error" ->
            Outcome("done", << Response(400, [error |-> ans.message]) >>, <<>>, <<>>)
      [] ans.kind = "ok" /\ ans.session = 0 ->
            Outcome("done",
                    << Response(200, [message |-> "Registration successful. Please check your email to confirm your account."]) >>,
                    <<>>, <<>>)
      [] OTHER ->
            Outcome("done",
                    << Response(201, [message |-> "Registration successful",
                                      user |-> [id |-> ans.user.id, email |-> ans.user.email,
                                                name |-> Undefined, role |-> Undefined]]) >>,
                    SessionCookies(ans.session), <<>>)

\* register without the test of data.session: reading the tokens of a
\* missing session throws into the catch block
register_relay_nosessioncheck(ans) ==
    CASE ans.kind = "throw" ->
            Outcome("done", << Response(500, [error |-> "Registration failed"]) >>, <<>>, <<>>)
      [] ans.kind = "error" ->
            Outcome("done", << Response(400, [error |-> ans.message]) >>, <<>>, <<>>)
      [] ans.kind = "ok" /\ ans.session = 0 ->
            Outcome("done", << Response(500, [error |-> "Registration failed"]) >>, <<>>, <<>>)
      [] OTHER ->
            Outcome("done",
                    << Response(201, [message |-> "Registration successful",
                                      user |-> UserBody(ans.user)]) >>,
                    SessionCookies(ans.session), <<>>)

\* register that hides the provider's error message
register_relay_generic(ans) ==
    CASE ans.kind = "throw" ->
            Outcome("done", << Response(500, [error |-> "Registration failed"]) >>, <<>>, <<>>)
      [] ans.kind = "error" ->
            Outcome("done", << Response(400, [error |-> "Registration failed"]) >>, <<>>, <<>>)
      [] ans.kind = "ok" /\ ans.session = 0 ->
            Outcome("done",
                    << Response(200, [message |-> "Registration successful. Please check your email to confirm your account."]) >>,
                    <<>>, <<>>)
      [] OTHER ->
            Outcome("done",
                    << Response(201, [message |-> "Registration successful",
                                      user |-> UserBody(ans.user)]) >>,
                    SessionCookies(ans.session), <<>>)

\* register that answers a provider error and signs up a second time
register_relay_secondattempt(ans) ==
    CASE ans.kind = "throw" ->
            Outcome("done", << Response(500, [error |-> "Registration failed"]) >>, <<>>, <<>>)
      [] ans.kind = "error" ->
            Outcome("done", << Response(400, [error |-> ans.message]) >>, <<>>,
                    << Call("signUp", Undefined, Undefined, Undefined, Undefined, Undefined) >>)
      [] ans.kind = "ok" /\ ans.session = 0 ->
            Outcome("done",
                    << Response(200, [message |-> "Registration successful. Please check your email to confirm your account."]) >>,
                    <<>>, <<>>)
      [] OTHER ->
            Outcome("done",
                    << Response(201, [message |-> "Registration successful",
                                      user |-> UserBody(ans.user)]) >>,
                    SessionCookies(ans.session), <<>>)

register_relay(ans) ==
    CASE ans.kind = "throw" ->
            Outcome("done", << Response(500, [error |-> "Registration failed"]) >>, <<>>, <<>>)
      [] ans.kind = "error" ->
            Outcome("done", << Response(400, [error |-> ans.message]) >>, <<>>, <<>>)
      [] ans.kind = "ok" /\ ans.session = 0 ->
            Outcome("done",
                    << Response(200, [message |-> "Registration successful. Please check your email to confirm your account."]) >>,
                    <<>>, <<>>)
      [] OTHER ->
            Outcome("done",
                    << Response(201, [message |-> "Registration successful",
                                      user |-> UserBody(ans.user)]) >>,
                    SessionCookies(ans.session), <<>>)

\* login that requires the email only
login_validate_emailonly(r) ==
    IF Falsy(r.email)
    THEN Outcome("done", << Response(400, [error |-> "Email and password are required"]) >>,
                 <<>>, <<>>)
    ELSE Outcome("signInWithPassword", <<>>, <<>>,
                 << Call("signInWithPassword", r.email, r.password,
                         Undefined, Undefined, Undefined) >>)

login_validate(r) ==
    IF Falsy(r.email) \/ Falsy(r.password)
    THEN Outcome("done", << Response(400, [error |-> "Email and password are required"]) >>,
                 <<>>, <<>>)
    ELSE Outcome("signInWithPassword", <<>>, <<>>,
                 << Call("signInWithPassword", r.email, r.password,
                         Undefined, Undefined, Undefined) >>)

\* login that passes the provider's error message on to the caller
login_relay_leaky(ans) ==
    CASE ans.kind = "throw" ->
            Outcome("done", << Response(500, [error |-> "Login failed"]) >>, <<>>, <<>>)
      [] ans.kind = "error" ->
            Outcome("done", << Response(401, [error |-> ans.message]) >>, <<>>, <<>>)
      [] ans.kind = "ok" /\ ans.session = 0 ->
            Outcome("done", << Response(401, [error |-> "Login failed"]) >>, <<>>, <<>>)
      [] OTHER ->
            Outcome("done",
                    << Response(200, [message |-> "Login successful",
                                      user |-> UserBody(ans.user)]) >>,
                    SessionCookies(ans.session), <<>>)

\* login that stores the access token only
login_relay_onecookie(ans) ==
    CASE ans.kind = "throw" ->
            Outcome("done", << Response(500, [error |-> "Login failed"]) >>, <<>>, <<>>)
      [] ans.kind = "error" ->
            Outcome("done", << Response(401, [error |-> "Invalid credentials"]) >>, <<>>, <<>>)
      [] ans.kind = "ok" /\ ans.session = 0 ->
            Outcome("done", << Response(401, [error |-> "Login failed"]) >>, <<>>, <<>>)
      [] OTHER ->
            Outcome("done",
                    << Response(200, [message |-> "Login successful",
                                      user |-> UserBody(ans.user)]) >>,
                    << SetCookie("sb-access-token", AccessToken(ans.session)) >>, <<>>)

\* login without the test of data.session: reading the tokens of a missing
\* session throws into the catch block
login_relay_nosessioncheck(ans) ==
    CASE ans.kind = "throw" ->
            Outcome("done", << Response(500, [error |-> "Login failed"]) >>, <<>>, <<>>)
      [] ans.kind = "error" ->
            Outcome("done", << Response(401, [error |-> "Invalid credentials"]) >>, <<>>, <<>>)
      [] ans.kind = "ok" /\ ans.session = 0 ->
            Outcome("done", << Response(500, [error |-> "Login failed"]) >>, <<>>, <<>>)
      [] OTHER ->
            Outcome("done",
                    << Response(200, [message |-> "Login successful",
                                      user |-> UserBody(ans.user)]) >>,
                    SessionCookies(ans.session), <<>>)

\* login that also returns the access token in the body
login_relay_tokeninbody(ans) ==
    CASE ans.kind = "throw" ->
            Outcome("done", << Response(500, [error |-> "Login failed"]) >>, <<>>, <<>>)
      [] ans.kind = "error" ->
            Outcome("done", << Response(401, [error |-> "Invalid credentials"]) >>, <<>>, <<>>)
      [] ans.kind = "ok" /\ ans.session = 0 ->
            Outcome("done", << Response(401, [error |-> "Login failed"]) >>, <<>>, <<>>)
      [] OTHER ->
            Outcome("done",
                    << Response(200, [message |-> "Login successful",
                                      user |-> UserBody(ans.user),
                                      access_token |-> AccessToken(ans.session)]) >>,
                    SessionCookies(ans.session), <<>>)

\* login that sets the cookies before it tests data.session
login_relay_cookiesfirst(ans) ==
    CASE ans.kind = "throw" ->
            Outcome("done", << Response(500, [error |-> "Login failed"]) >>, <<>>, <<>>)
      [] ans.kind = "error" ->
            Outcome("done", << Response(401, [error |-> "Invalid credentials"]) >>, <<>>, <<>>)
      [] ans.kind = "ok" /\ ans.session = 0 ->
            Outcome("done", << Response(401, [error |-> "Login failed"]) >>,
                    << SetCookie("sb-access-token", Undefined),
                       SetCookie("sb-refresh-token", Undefined) >>, <<>>)
      [] OTHER ->
            Outcome("done",
                    << Response(200, [message |-> "Login successful",
                                      user |-> UserBody(ans.user)]) >>,
                    SessionCookies(ans.session), <<>>)

login_relay(ans) ==
    CASE ans.kind = "throw" ->
            Outcome("done", << Response(500, [error |-> "Login failed"]) >>, <<>>, <<>>)
      [] ans.kind = "error" ->
            Outcome("done", << Response(401, [error |-> "Invalid credentials"]) >>, <<>>, <<>>)
      [] ans.kind = "ok" /\ ans.session = 0 ->
            Outcome("done", << Response(401, [error |-> "Login failed"]) >>, <<>>, <<>>)
      [] OTHER ->
            Outcome("done",
                    << Response(200, [message |-> "Login successful",
                                      user |-> UserBody(ans.user)]) >>,
                    SessionCookies(ans.session), <<>>)

logout_clear ==
    Outcome("done", << Response(200, [message |-> "Logout successful"]) >>,
            << ClearCookie("sb-access-token"), ClearCookie("sb-refresh-token") >>, <<>>)

logout_token(r) ==
    IF ~Falsy(r.cookie)
    THEN Outcome("signOut", <<>>, <<>>,
                 << Call("signOut", Undefined, Undefined, Undefined, Undefined, Undefined) >>)
    ELSE logout_clear

logout_relay(ans) ==
    IF ans.kind = "throw"
    THEN Outcome("done", << Response(500, [error |-> "Logout failed"]) >>, <<>>, <<>>)
    ELSE logout_clear

\* getProfile that forwards the cookie without looking at it
getProfile_token_unchecked(r) ==
    Outcome("getUser", <<>>, <<>>,
            << Call("getUser", Undefined, Undefined, Undefined, Undefined, r.cookie) >>)

\* getProfile without the return after its 401: it goes on to the provider
\* and answers again
getProfile_token_noreturn(r) ==
    IF Falsy(r.cookie)
    THEN Outcome("getUser", << Response(401, [error |-> "Not authenticated"]) >>, <<>>,
                 << Call("getUser", Undefined, Undefined, Undefined, Undefined, r.cookie) >>)
    ELSE Outcome("getUser", <<>>, <<>>,
                 << Call("getUser", Undefined, Undefined, Undefined, Undefined, r.cookie) >>)

getProfile_token(r) ==
    IF Falsy(r.cookie)
    THEN Outcome("done", << Response(401, [error |-> "Not authenticated"]) >>, <<>>, <<>>)
    ELSE Outcome("getUser", <<>>, <<>>,
                 << Call("getUser", Undefined, Undefined, Undefined, Undefined, r.cookie) >>)

\* getProfile that tests the error only, not the missing user
getProfile_relay_erroronly(ans) ==
    CASE ans.kind = "throw" ->
            Outcome("done", << Response(500, [error |-> "Failed to get profile"]) >>, <<>>, <<>>)
      [] ans.kind = "error" ->
            Outcome("done", << Response(401, [error |-> "Invalid token"]) >>, <<>>, <<>>)
      [] OTHER ->
            Outcome("done", << Response(200, [user |-> UserBody(ans.user)]) >>, <<>>, <<>>)

\* getProfile that answers with the default role instead of the account's
getProfile_relay_defaultrole(ans) ==
    CASE ans.kind = "throw" ->
            Outcome("done", << Response(500, [error |-> "Failed to get profile"]) >>, <<>>, <<>>)
      [] ans.kind = "error" \/ ans.user = NoUser ->
            Outcome("done", << Response(401, [error |-> "Invalid token"]) >>, <<>>, <<>>)
      [] OTHER ->
            Outcome("done",
                    << Response(200, [user |-> [id |-> ans.user.id, email |-> ans.user.email,
                                                name |-> ans.user.name,
                                                role |-> S(<<"patient">>)]]) >>,
                    <<>>, <<>>)

\* getProfile that answers a thrown error with the error's own message
getProfile_relay_thrownmessage(ans) ==
    CASE ans.kind = "throw" ->
            Outcome("done", << Response(500, [error |-> ans.message]) >>, <<>>, <<>>)
      [] ans.kind = "error" \/ ans.user = NoUser ->
            Outcome("done", << Response(401, [error |-> "Invalid token"]) >>, <<>>, <<>>)
      [] OTHER ->
            Outcome("done", << Response(200, [user |-> UserBody(ans.user)]) >>, <<>>, <<>>)

getProfile_relay(ans) ==
    CASE ans.kind = "throw" ->
            Outcome("done", << Response(500, [error |-> "Failed to get profile"]) >>, <<>>, <<>>)
      [] ans.kind = "error" \/ ans.user = NoUser ->
            Outcome("done", << Response(401, [error |-> "Invalid token"]) >>, <<>>, <<>>)
      [] OTHER ->
            Outcome("done", << Response(200, [user |-> UserBody(ans.user)]) >>, <<>>, <<>>)

(***************************************************************************)
(* The earlier controller, which validates the sign-up input and stops     *)
(* short of the provider, and its logout, which only clears the cookies.   *)
(***************************************************************************)
register_draft(r) ==
    IF Falsy(r.email) \/ Falsy(r.password) \/ Falsy(r.name)
    THEN Outcome("done",
                 << Response(400, [error |-> "Missing required fields",
                                   message |-> "Email, password, and name are required"]) >>,
                 <<>>, <<>>)
    ELSE IF ~emailRegex(r.email.s)
    THEN Outcome("done",
                 << Response(400, [error |-> "Invalid email",
                                   message |-> "Please provide a valid email address"]) >>,
                 <<>>, <<>>)
    ELSE IF Len(r.password.s) < MinPasswordLength
    THEN Outcome("done",
                 << Response(400, [error |-> "Weak password",
                                   message |-> "Password must be at least 6 characters long"]) >>,
                 <<>>, <<>>)
    ELSE Outcome("done",
                 << Response(501, [message |-> "Registration endpoint - validation works! Next: call Supabase",
                                   receivedData |-> [email |-> r.email, name |-> r.name,
                                                     role |-> OrElse(r.role, S(<<"patient">>))]]) >>,
                 <<>>, <<>>)

logout_draft(r) == logout_clear

(***************************************************************************)
(* The gate in front of protected routes.  Its introspection call and its  *)
(* next() are commented out: with a cookie it answers 501.                 *)
(***************************************************************************)
verifyToken(r) ==
    IF Falsy(r.cookie)
    THEN Outcome("done",
                 << Response(401, [error |-> "No authentication token found",
                                   message |-> "Please log in to access this resource"]) >>,
                 <<>>, <<>>)
    ELSE Outcome("done",
                 << Response(501, [message |-> "Auth middleware not yet implemented",
                                   todo |-> "Set up Supabase and uncomment the code above"]) >>,
                 <<>>, <<>>)

(***************************************************************************)
(* Steps.  Start dispatches a request to its handler and runs it to its    *)
(* first await or to its response; Resume runs it from the await on.       *)
(***************************************************************************)
Start(r, out) ==
    /\ pc = "idle"
    /\ req' = r
    /\ pc' = out.pc
    /\ res' = out.res
    /\ cookies' = out.cookies
    /\ calls' = out.calls
    /\ answers' = <<>>
    /\ nextRan' = FALSE
    /\ UNCHANGED << nodeEnv, issued, sessions, handle, jar, afterLogout,
                    appointment, dispatched >>

Resume(ans, out) ==
    /\ answers' = Append(answers, ans)
    /\ pc' = out.pc
    /\ res' = res \o out.res
    /\ cookies' = cookies \o out.cookies
    /\ calls' = calls \o out.calls
    /\ UNCHANGED << nodeEnv, req, nextRan, jar, afterLogout, appointment, dispatched >>

\* a session issued by sign-up or sign-in is live and is kept by the handle
Issue(ans) ==
    IF ans.kind = "ok" /\ ans.session # 0
    THEN /\ issued' = ans.session
         /\ sessions' = sessions \cup { ans.session }
         /\ handle' = ans.session
    ELSE UNCHANGED << issued, sessions, handle >>

\* signOut() takes no token: it ends the session the handle holds
Revoke(ans) ==
    IF ans.kind = "ok"
    THEN /\ sessions' = sessions \ { handle }
         /\ handle' = 0
         /\ UNCHANGED issued
    ELSE UNCHANGED << issued, sessions, handle >>

register ==
    \E e \in Emails, p \in Passwords, n \in Names, r \in Roles :
        /\ Start(Request("register", e, p, n, r, Undefined),
                 register_validate(Request("register", e, p, n, r, Undefined)))
        /\ UNCHANGED seen

register_signUp ==
    /\ pc = "signUp"
    /\ \E ans \in SignUpAnswers(calls[Len(calls)]) :
        /\ Resume(ans, register_relay(ans))
        /\ Issue(ans)
    /\ UNCHANGED seen

login ==
    \E e \in Emails, p \in Passwords :
        /\ Start(Request("login", e, p, Undefined, Undefined, Undefined),
                 login_validate(Request("login", e, p, Undefined, Undefined, Undefined)))
        /\ UNCHANGED seen

login_signInWithPassword ==
    /\ pc = "signInWithPassword"
    /\ \E ans \in SignInAnswers(calls[Len(calls)]) :
        /\ Resume(ans, login_relay(ans))
        /\ Issue(ans)
        /\ seen' = IF ans.kind = "error"
                   THEN seen \cup { [error |-> ans.message,
                                     res |-> login_relay(ans).res,
                                     cookies |-> login_relay(ans).cookies] }
                   ELSE seen

logout ==
    \E c \in CookieValues :
        /\ Start(Request("logout", Undefined, Undefined, Undefined, Undefined, c),
                 logout_token(Request("logout", Undefined, Undefined, Undefined, Undefined, c)))
        /\ UNCHANGED seen

logout_signOut ==
    /\ pc = "signOut"
    /\ \E ans \in SignOutAnswers :
        /\ Resume(ans, logout_relay(ans))
        /\ Revoke(ans)
    /\ UNCHANGED seen

getProfile ==
    \E c \in CookieValues :
        /\ Start(Request("getProfile", Undefined, Undefined, Undefined, Undefined, c),
                 getProfile_token(Request("getProfile", Undefined, Undefined, Undefined, Undefined, c)))
        /\ UNCHANGED seen

getProfile_getUser ==
    /\ pc = "getUser"
    /\ \E ans \in GetUserAnswers(calls[Len(calls)]) :
        Resume(ans, getProfile_relay(ans))
    /\ UNCHANGED << issued, sessions, handle, seen >>

registerDraft ==
    \E e \in Emails, p \in Passwords, n \in Names, r \in Roles :
        /\ Start(Request("register_draft", e, p, n, r, Undefined),
                 register_draft(Request("register_draft", e, p, n, r, Undefined)))
        /\ UNCHANGED seen

logoutDraft ==
    \E c \in CookieValues :
        /\ Start(Request("logout_draft", Undefined, Undefined, Undefined, Undefined, c),
                 logout_draft(Request("logout_draft", Undefined, Undefined, Undefined, Undefined, c)))
        /\ UNCHANGED seen

\* GET /api/auth/profile as routed: verifyToken, then getProfile if the gate
\* calls next(), which it never does
profileRoute ==
    \E c \in CookieValues :
        /\ Start(Request("verifyToken", Undefined, Undefined, Undefined, Undefined, c),
                 verifyToken(Request("verifyToken", Undefined, Undefined, Undefined, Undefined, c)))
        /\ UNCHANGED seen

(***************************************************************************)
(* One browser as the client of the broker.  It fills the forms of the     *)
(* client application, sends the cookies of its jar with every request     *)
(* (credentials are enabled) and stores the cookies of every response.     *)
(***************************************************************************)
EmptyJar == {}

\* a cookie sent empty and expired is dropped, any other replaces the one of
\* its name
StoreCookie(j, ck) ==
    { c \in j : c.name # ck.name }
    \cup IF "expires" \in DOMAIN ck.options
         THEN {}
         ELSE { [name |-> ck.name, value |-> ck.value] }

RECURSIVE StoreCookies(_, _)
StoreCookies(j, cks) ==
    IF cks = <<>> THEN j ELSE StoreCookies(StoreCookie(j, Head(cks)), Tail(cks))

\* req.cookies[name] as cookie-parser fills it from the cookies sent
Cookie(j, name) ==
    IF \E c \in j : c.name = name
    THEN (CHOOSE c \in j : c.name = name).value
    ELSE Undefined

logout_cookie(j) == Cookie(j, "sb-access-token")

\* getProfile that reads the cookie under the name without prefix
getProfile_cookie_noprefix(j) == Cookie(j, "access-token")

getProfile_cookie(j) == Cookie(j, "sb-access-token")

verifyToken_cookie(j) == Cookie(j, "sb-access-token")

\* RegisterData and LoginCredentials as the forms submit them
FormEmails == { S(<<>>), S(<<"a", "@", "b", ".", "c">>) }

FormPasswords == { S(<<>>), S([k \in 1..MinPasswordLength |-> "p"]) }

FormNames == { S(<<"Ann">>) }

FormRoles == { Undefined, S(<<"patient">>), S(<<"doctor">>) }

browser_register ==
    \E e \in FormEmails, p \in FormPasswords, n \in FormNames, r \in FormRoles :
        /\ Start(Request("register", e, p, n, r, Undefined),
                 register_validate(Request("register", e, p, n, r, Undefined)))
        /\ UNCHANGED seen

browser_login ==
    \E e \in FormEmails, p \in FormPasswords :
        /\ Start(Request("login", e, p, Undefined, Undefined, Undefined),
                 login_validate(Request("login", e, p, Undefined, Undefined, Undefined)))
        /\ UNCHANGED seen

browser_logout ==
    /\ Start(Request("logout", Undefined, Undefined, Undefined, Undefined, logout_cookie(jar)),
             logout_token(Request("logout", Undefined, Undefined, Undefined, Undefined,
                                  logout_cookie(jar))))
    /\ UNCHANGED seen

browser_getProfile ==
    /\ Start(Request("getProfile", Undefined, Undefined, Undefined, Undefined, getProfile_cookie(jar)),
             getProfile_token(Request("getProfile", Undefined, Undefined, Undefined, Undefined,
                                      getProfile_cookie(jar))))
    /\ UNCHANGED seen

browser_profileRoute ==
    /\ Start(Request("verifyToken", Undefined, Undefined, Undefined, Undefined, verifyToken_cookie(jar)),
             verifyToken(Request("verifyToken", Undefined, Undefined, Undefined, Undefined,
                                 verifyToken_cookie(jar))))
    /\ UNCHANGED seen

\* the response arrives: the browser stores its cookies
browser_receive ==
    /\ pc = "done"
    /\ pc' = "idle"
    /\ jar' = StoreCookies(jar, cookies)
    /\ afterLogout' = IF req.handler = "logout" THEN TRUE
                      ELSE IF req.handler \in { "login", "register" } /\ cookies # <<>> THEN FALSE
                      ELSE afterLogout
    /\ req' = NoRequest
    /\ res' = <<>>
    /\ cookies' = <<>>
    /\ calls' = <<>>
    /\ answers' = <<>>
    /\ nextRan' = FALSE
    /\ UNCHANGED << nodeEnv, issued, sessions, handle, seen, appointment, dispatched >>

\* the response is out and the handler has returned: the server is ready
\* for the next request
finish ==
    /\ pc = "done"
    /\ pc' = "idle"
    /\ req' = NoRequest
    /\ res' = <<>>
    /\ cookies' = <<>>
    /\ calls' = <<>>
    /\ answers' = <<>>
    /\ nextRan' = FALSE
    /\ UNCHANGED << nodeEnv, issued, sessions, handle, seen, jar, afterLogout,
                    appointment, dispatched >>

(***************************************************************************)
(* The appointment slice of the client's store: the doctor, date and time  *)
(* slot selected in the booking pages, and its four reducers.              *)
(***************************************************************************)
Null == [null |-> TRUE]

Doctors ==
    { [id |-> S(<<"d1">>), name |-> S(<<"Dr. Lee">>), specialization |-> S(<<"Cardiology">>)],
      [id |-> S(<<"d2">>), name |-> S(<<"Dr. Roy">>), specialization |-> S(<<"Dermatology">>)] }

Dates == { S(<<"2025-06-01">>), S(<<"2025-06-02">>) }

TimeSlots == { S(<<"09:00">>), S(<<"09:30">>) }

Action(t, p) == [type |-> t, payload |-> p]

initialState == [selectedDoctor |-> Null, selectedDate |-> Null, selectedTimeSlot |-> Null]

\* a reducer that drops the selected time slot when the doctor changes
setSelectedDoctor_dropsslot(state, action) ==
    [state EXCEPT !.selectedDoctor = action.payload, !.selectedTimeSlot = Null]

setSelectedDoctor(state, action) == [state EXCEPT !.selectedDoctor = action.payload]

setSelectedDate(state, action) == [state EXCEPT !.selectedDate = action.payload]

setSelectedTimeSlot(state, action) == [state EXCEPT !.selectedTimeSlot = action.payload]

clearAppointment(state) ==
    [state EXCEPT !.selectedDoctor = Null, !.selectedDate = Null, !.selectedTimeSlot = Null]

\* store.dispatch(action): the slice's state becomes what the reducer returns
dispatch(action, state) ==
    /\ Len(dispatched) < MaxDispatch
    /\ appointment' = state
    /\ dispatched' = Append(dispatched, action)
    /\ UNCHANGED << nodeEnv, req, pc, res, cookies, calls, answers, nextRan, issued,
                    sessions, handle, seen, jar, afterLogout >>

\* the payload of setSelectedDoctor is typed any: the pages may pass null
dispatch_setSelectedDoctor ==
    \E p \in Doctors \cup { Null } :
        dispatch(Action("setSelectedDoctor", p),
                 setSelectedDoctor(appointment, Action("setSelectedDoctor", p)))

dispatch_setSelectedDate ==
    \E p \in Dates :
        dispatch(Action("setSelectedDate", p),
                 setSelectedDate(appointment, Action("setSelectedDate", p)))

dispatch_setSelectedTimeSlot ==
    \E p \in TimeSlots :
        dispatch(Action("setSelectedTimeSlot", p),
                 setSelectedTimeSlot(appointment, Action("setSelectedTimeSlot", p)))

dispatch_clearAppointment ==
    dispatch(Action("clearAppointment", Null), clearAppointment(appointment))

Init ==
    /\ nodeEnv \in { "production", "development" }
    /\ req = NoRequest
    /\ pc = "idle"
    /\ res = <<>>
    /\ cookies = <<>>
    /\ calls = <<>>
    /\ answers = <<>>
    /\ nextRan = FALSE
    /\ issued = 0
    /\ sessions = {}
    /\ handle = 0
    /\ seen = {}
    /\ jar = EmptyJar
    /\ afterLogout = FALSE
    /\ appointment = initialState
    /\ dispatched = <<>>

Next ==
    \/ register
    \/ register_signUp
    \/ login
    \/ login_signInWithPassword
    \/ logout
    \/ logout_signOut
    \/ getProfile
    \/ getProfile_getUser
    \/ registerDraft
    \/ logoutDraft
    \/ profileRoute
    \/ finish

Spec == Init /\ [][Next]_vars

NextBrowser ==
    \/ browser_register
    \/ register_signUp
    \/ browser_login
    \/ login_signInWithPassword
    \/ browser_logout
    \/ logout_signOut
    \/ browser_getProfile
    \/ getProfile_getUser
    \/ browser_profileRoute
    \/ browser_receive

SpecBrowser == Init /\ [][NextBrowser]_vars

NextStore ==
    \/ dispatch_setSelectedDoctor
    \/ dispatch_setSelectedDate
    \/ dispatch_setSelectedTimeSlot
    \/ dispatch_clearAppointment

SpecStore == Init /\ [][NextStore]_vars

(***************************************************************************)
(* Properties.                                                             *)
(***************************************************************************)
Done == pc = "done"

Called(op) == \E k \in 1..Len(calls) : calls[k].op = op

IsRegister == req.handler \in { "register", "register_draft" }

IsLogout == req.handler \in { "logout", "logout_draft" }

\* the request was answered once, with this status
Answered(st) == Len(res) = 1 /\ res[1].status = st

\* the provider answered the introspection of this request with a rejection
Rejected == /\ Len(answers) = 1
            /\ \/ answers[1].kind = "error"
               \/ answers[1].kind = "ok" /\ answers[1].user = NoUser

\* the body getProfile gives to a rejected token
InvalidTokenBody == getProfile_relay(Answer("error", "invalid JWT", 0, NoUser)).res[1].body

\* C1: a register request whose email, password or name is missing or empty
\* is answered 400 with an error message, and the provider's sign-up is not
\* called for it.
C1_MissingFieldRejected ==
    (IsRegister /\ (Falsy(req.email) \/ Falsy(req.password) \/ Falsy(req.name)))
        => /\ ~Called("signUp")
           /\ Done => (Answered(400) /\ "error" \in DOMAIN res[1].body)

\* C2: a register request whose password has fewer than 6 characters, its
\* email and name present and well-formed, is answered 400 and no provider
\* call is made for it.
C2_ShortPasswordRejected ==
    (/\ IsRegister
     /\ ~Falsy(req.email) /\ emailRegex(req.email.s)
     /\ ~Falsy(req.name)
     /\ req.password.def /\ Len(req.password.s) < 6)
        => /\ calls = <<>>
           /\ Done => Answered(400)

\* C3: a register request whose email does not have the shape
\* local@domain.tld is answered 400 and the provider's sign-up is not called.
C3_MalformedEmailRejected ==
    (IsRegister /\ (~req.email.def \/ ~emailRegex(req.email.s)))
        => /\ ~Called("signUp")
           /\ Done => Answered(400)

\* C4: any two logins the provider answered with an error, whatever the
\* error, got the same response: status 401, the same body, no cookie.
C4_EnumerationResistance ==
    \A a, b \in seen :
        /\ a.res = b.res
        /\ Len(a.res) = 1
        /\ a.res[1].status = 401
        /\ a.cookies = <<>>

\* two logins were answered to two different provider errors
C4_Witness == \E a, b \in seen : a.error # b.error

\* C5: every logout is answered 200, whether or not it carries the cookie
\* and whether the provider's sign-out succeeds, returns an error or throws.
C5_LogoutAlways200 == (IsLogout /\ Done) => Answered(200)

\* C6: every logout clears the access-token and the refresh-token cookie,
\* also when the provider's sign-out fails or throws.
C6_LogoutClearsBoth ==
    (IsLogout /\ Done)
        => \A n \in { "sb-access-token", "sb-refresh-token" } :
               \E k \in 1..Len(cookies) : cookies[k] = ClearCookie(n)

\* C7: a request to the gate with no cookie, or with a cookie the provider's
\* introspection rejects, is answered 401 and the downstream handler is not
\* run.
C7_GateBlocksWith401 ==
    (/\ req.handler = "verifyToken" /\ Done
     /\ (Falsy(req.cookie) \/ SessionOf(req.cookie) \notin sessions))
        => (Answered(401) /\ ~nextRan)

\* C8: a request to the gate whose cookie the provider's introspection
\* accepts gets the downstream handler run and the profile answered 200.
C8_GatePassesValidSession ==
    (/\ req.handler = "verifyToken" /\ Done
     /\ SessionOf(req.cookie) \in sessions)
        => (nextRan /\ res[Len(res)].status = 200)

\* C9: getProfile without the access-token cookie answers 401 "Not
\* authenticated", which is not the answer to an invalid token, and makes no
\* call to the provider.
C9_NoCookieUnauthenticated ==
    (req.handler = "getProfile" /\ Falsy(req.cookie))
        => /\ calls = <<>>
           /\ Done => /\ Answered(401)
                      /\ res[1].body = [error |-> "Not authenticated"]
                      /\ res[1].body # InvalidTokenBody

\* getProfile has answered a request that carries no cookie
C9_Witness == req.handler = "getProfile" /\ Falsy(req.cookie) /\ Done

\* C10: getProfile with a cookie whose introspection the provider rejects,
\* by an error or by returning no user, answers 401 "Invalid token" without
\* user fields.
C10_RejectedTokenInvalid ==
    (req.handler = "getProfile" /\ Done /\ ~Falsy(req.cookie) /\ Rejected)
        => /\ Answered(401)
           /\ res[1].body.error = "Invalid token"
           /\ "user" \notin DOMAIN res[1].body

\* getProfile has answered a token for which the provider returned no error
\* and no user
C10_Witness ==
    /\ req.handler = "getProfile" /\ Done /\ ~Falsy(req.cookie)
    /\ Len(answers) = 1 /\ answers[1].kind = "ok" /\ answers[1].user = NoUser

\* the provider answered the one call of this request with data
Accepted == Len(answers) = 1 /\ answers[1].kind = "ok"

\* the user of a response body carries the values the provider returned
RelaysUser(b) ==
    /\ "user" \in DOMAIN b
    /\ b.user.id = answers[1].user.id
    /\ b.user.email = answers[1].user.email
    /\ b.user.name = answers[1].user.name
    /\ b.user.role = answers[1].user.role

\* the two cookies of the session the provider returned, and no other
SetsSessionCookies ==
    /\ Len(cookies) = 2
    /\ cookies[1].name = "sb-access-token"
    /\ cookies[1].value = AccessToken(answers[1].session)
    /\ cookies[2].name = "sb-refresh-token"
    /\ cookies[2].value = RefreshToken(answers[1].session)

\* C11: getProfile with a cookie the provider accepts answers 200 with the
\* id, email, name and role the provider returned for the token.
C11_ProfileRelaysUser ==
    (req.handler = "getProfile" /\ Done /\ Accepted /\ answers[1].user # NoUser)
        => (Answered(200) /\ RelaysUser(res[1].body))

\* getProfile has answered the token of a doctor's live session
C11_Witness ==
    /\ req.handler = "getProfile" /\ Done /\ Accepted
    /\ answers[1].user # NoUser
    /\ answers[1].user.role = S(<<"doctor">>)

\* C12: a login the provider accepts with a session answers 200, sets exactly
\* the access-token and the refresh-token cookie of that session and returns
\* the user the provider returned.
C12_LoginSuccess ==
    (req.handler = "login" /\ Done /\ Accepted /\ answers[1].session # 0)
        => (Answered(200) /\ SetsSessionCookies /\ RelaysUser(res[1].body))

\* login has answered credentials the provider accepted with a session
C12_Witness ==
    req.handler = "login" /\ Done /\ Accepted /\ answers[1].session # 0

\* C13: a register the provider answers with a session answers 201, sets
\* exactly the two cookies of that session and returns the email, id, name
\* and role of the account the provider registered.
C13_RegisterSuccess ==
    (req.handler = "register" /\ Done /\ Accepted /\ answers[1].session # 0)
        => /\ Answered(201)
           /\ SetsSessionCookies
           /\ RelaysUser(res[1].body)
           /\ res[1].body.user.email = req.email

\* register has answered a sign-up with name and role that got a session
C13_Witness ==
    /\ req.handler = "register" /\ Done /\ Accepted /\ answers[1].session # 0
    /\ ~Falsy(req.name) /\ ~Falsy(req.role)

\* C14: a register the provider answers without error and without session
\* answers 200 with the check-your-email message and sets no cookie.
C14_ConfirmEmail ==
    (req.handler = "register" /\ Done /\ Accepted /\ answers[1].session = 0)
        => /\ Answered(200)
           /\ res[1].body = [message |-> "Registration successful. Please check your email to confirm your account."]
           /\ cookies = <<>>

\* register has answered a sign-up that awaits the email confirmation
C14_Witness ==
    req.handler = "register" /\ Done /\ Accepted /\ answers[1].session = 0

\* C15: a register the provider answers with an error answers 400 with the
\* provider's message and sets no cookie.
C15_ProviderRejection ==
    (req.handler = "register" /\ Done /\ Len(answers) = 1 /\ answers[1].kind = "error")
        => /\ Answered(400)
           /\ res[1].body = [error |-> answers[1].message]
           /\ cookies = <<>>

\* register has answered a sign-up the provider refused
C15_Witness ==
    /\ req.handler = "register" /\ Done
    /\ Len(answers) = 1 /\ answers[1] = Answer("error", "User already registered", 0, NoUser)

\* C18: every cookie register or login sets is httpOnly, has path "/" and a
\* max-age of 7 days, is secure exactly in production and has sameSite
\* "strict" in production and "lax" otherwise; the cookies of one response
\* carry the same attributes.
C18_CookieAttributes ==
    req.handler \in { "register", "login" }
        => \A k \in 1..Len(cookies) :
              /\ cookies[k].options.httpOnly = TRUE
              /\ cookies[k].options.path = "/"
              /\ cookies[k].options.maxAge = 604800000
              /\ cookies[k].options.secure = (nodeEnv = "production")
              /\ cookies[k].options.sameSite
                     = (IF nodeEnv = "production" THEN "strict" ELSE "lax")
              /\ cookies[k].options = cookies[1].options

\* register has set its two cookies in production
C18_Witness ==
    req.handler = "register" /\ Done /\ Len(cookies) = 2 /\ nodeEnv = "production"

\* C19: a login whose email or password is missing or empty is answered 400
\* and the provider's password verification is not called for it.
C19_LoginMissingField ==
    (req.handler = "login" /\ (Falsy(req.email) \/ Falsy(req.password)))
        => /\ ~Called("signInWithPassword")
           /\ Done => Answered(400)

\* login has answered a request with an email and an empty password
C19_Witness ==
    req.handler = "login" /\ Done /\ ~Falsy(req.email) /\ req.password = S(<<>>)

\* C20: a login the provider answers with no error and no session is
\* answered 401 and sets no cookie.
C20_LoginNoSession ==
    (req.handler = "login" /\ Done /\ Accepted /\ answers[1].session = 0)
        => (Answered(401) /\ cookies = <<>>)

\* login has answered credentials the provider accepted without a session
C20_Witness ==
    req.handler = "login" /\ Done /\ Accepted /\ answers[1].session = 0

\* C16: a getProfile the browser issues after a logout, and before its next
\* login or register that gets a session, is never answered 200 with a user.
C16_NoProfileAfterLogout ==
    (req.handler = "getProfile" /\ Done /\ afterLogout)
        => ~(Answered(200) /\ "user" \in DOMAIN res[1].body)

\* the provider call of this request threw
Threw == Len(answers) = 1 /\ answers[1].kind = "throw"

\* C21: when the provider call of register, login or getProfile throws, the
\* handler still answers, once, with 500 and the fixed body of that handler,
\* which holds nothing of the thrown error.
C21_ThrowContained ==
    (req.handler \in { "register", "login", "getProfile" } /\ Threw)
        => /\ Done
           /\ Answered(500)
           /\ res[1].body = (CASE req.handler = "register" -> [error |-> "Registration failed"]
                               [] req.handler = "login" -> [error |-> "Login failed"]
                               [] OTHER -> [error |-> "Failed to get profile"])
           /\ res[1].body.error \notin ThrownErrors

\* getProfile has answered a request whose introspection could not connect
C21_Witness ==
    /\ req.handler = "getProfile" /\ Done /\ Threw
    /\ answers[1].message = "connect ECONNREFUSED"

\* the access and refresh tokens of every session
Tokens == { AccessToken(n) : n \in 1..MaxSessions } \cup { RefreshToken(n) : n \in 1..MaxSessions }

\* a field of the body, or of its user, is a token; error and message are
\* texts the controller writes or the provider's error message
BodyHoldsToken(b) ==
    \E f \in DOMAIN b \ { "error", "message" } :
        IF f = "user" THEN \E g \in DOMAIN b[f] : b[f][g] \in Tokens
                      ELSE b[f] \in Tokens

\* C22: no response body of register, login, logout or getProfile holds an
\* access token or a refresh token, whatever the request and the provider's
\* answer; the tokens of a session appear as cookie values only.
C22_NoTokenInBody ==
    req.handler \in { "register", "login", "logout", "getProfile" }
        => \A k \in 1..Len(res) : ~BodyHoldsToken(res[k].body)

\* login has answered 200 and handed out the tokens of the second session as
\* cookies
C22_Witness ==
    /\ req.handler = "login" /\ Done /\ Answered(200)
    /\ Len(cookies) = 2
    /\ cookies[1].value = AccessToken(2)
    /\ cookies[2].value = RefreshToken(2)

\* C23: whatever requests of other clients came before, the sign-out a
\* logout invokes ends no session but the one of the access-token cookie the
\* logout carries, so the sessions of the other clients stay live.
C23_LogoutIsolated ==
    [][(pc = "signOut" /\ pc' = "done")
          => (sessions \ sessions') \subseteq { SessionOf(req.cookie) }]_vars

C25_FailureBodyShape ==
    req.handler \in { "register", "register_draft", "login", "logout", "getProfile" }
        => \A k \in 1..Len(res) :
              res[k].status \in { 400, 401, 500 }
                  => { "error", "message" } \subseteq DOMAIN res[k].body

\* C26: the role register sends to the provider's sign-up is patient when
\* the request gives none, the requested role otherwise, and always one of
\* patient and doctor.
C26_RoleTagging ==
    (req.handler = "register" /\ Called("signUp"))
        => /\ calls[1].role = (IF Falsy(req.role) THEN S(<<"patient">>) ELSE req.role)
           /\ calls[1].role \in { S(<<"patient">>), S(<<"doctor">>) }

\* C27: a handler that has returned has sent exactly one response, on every
\* path of register, login, logout, getProfile and the gate, the paths of a
\* throwing provider included; a handler that has not returned has sent none
\* and waits for the answer to its one open provider call.
C27_ExactlyOneResponse ==
    /\ pc = "done" => Len(res) = 1
    /\ pc # "done" => res = <<>>
    /\ pc \notin { "idle", "done" } => Len(calls) = Len(answers) + 1

\* logout has answered after the provider's sign-out threw
C27_Witness == req.handler = "logout" /\ Done /\ Threw /\ Len(res) = 1

\* a res.cookie call, as opposed to a res.clearCookie call
IsSet(ck) == ck # ClearCookie(ck.name)

\* C28: a response of register, login, logout or getProfile sets a cookie
\* only when it is the 201 of register or the 200 of login to a provider
\* answer with a session, and then it sets the access-token and the
\* refresh-token cookie of that session together; no other response sets one.
C28_CookiesOnlyOnSuccess ==
    (/\ req.handler \in { "register", "login", "logout", "getProfile" }
     /\ \E k \in 1..Len(cookies) : IsSet(cookies[k]))
        => /\ Done /\ Accepted /\ answers[1].session # 0
           /\ \/ req.handler = "register" /\ Answered(201)
              \/ req.handler = "login" /\ Answered(200)
           /\ SetsSessionCookies

\* login has answered 200 in development and set the two cookies
C28_Witness ==
    /\ req.handler = "login" /\ Answered(200) /\ nodeEnv = "development"
    /\ Len(cookies) = 2 /\ IsSet(cookies[1]) /\ IsSet(cookies[2])

\* C29: the name under which register and login store the access token is
\* the name logout, getProfile and the gate read, and the two names they set
\* are the two names logout clears; so the token getProfile presents to the
\* provider is the access token of the session the provider issued last to
\* the browser.
C29_CookieNameRoundTrip ==
    /\ req.handler \in { "logout", "getProfile", "verifyToken" }
          => req.cookie = Cookie(jar, SessionCookies(1)[1].name)
    /\ (req.handler = "getProfile" /\ Called("getUser"))
          => calls[1].token = AccessToken(issued)
    /\ (req.handler = "logout" /\ Done /\ Answered(200))
          => /\ { cookies[k].name : k \in 1..Len(cookies) }
                   = { SessionCookies(1)[k].name : k \in 1..2 }
             /\ \A k \in 1..Len(cookies) : ~IsSet(cookies[k])

\* getProfile has presented the token of the browser's second login
C29_Witness ==
    /\ req.handler = "getProfile" /\ Called("getUser")
    /\ issued = 2
    /\ calls[1].token = AccessToken(2)

\* the payload of the last action of this type since the last
\* clearAppointment, null if there is none
RECURSIVE LastPayload(_, _)
LastPayload(h, t) ==
    IF h = <<>> THEN Null
    ELSE IF h[Len(h)].type = "clearAppointment" THEN Null
    ELSE IF h[Len(h)].type = t THEN h[Len(h)].payload
    ELSE LastPayload(SubSeq(h, 1, Len(h) - 1), t)

\* C30: after any sequence of the four actions each field of the slice
\* holds the payload of the last set action for that field since the last
\* clearAppointment, or null if there was none; so a set action leaves the
\* other two fields as they were and clearAppointment resets all three.
C30_SelectionStore ==
    /\ appointment.selectedDoctor = LastPayload(dispatched, "setSelectedDoctor")
    /\ appointment.selectedDate = LastPayload(dispatched, "setSelectedDate")
    /\ appointment.selectedTimeSlot = LastPayload(dispatched, "setSelectedTimeSlot")

\* after a clearAppointment a time slot was selected, then a doctor, and both
\* are held
C30_Witness ==
    /\ Len(dispatched) = 3
    /\ dispatched[1].type = "clearAppointment"
    /\ dispatched[2].type = "setSelectedTimeSlot"
    /\ dispatched[3].type = "setSelectedDoctor" /\ dispatched[3].payload # Null
    /\ appointment.selectedTimeSlot = dispatched[2].payload
    /\ appointment.selectedDoctor = dispatched[3].payload

====
